---- MODULE Spec2Model ----
(***************************************************************************)
(* Model of the news-portal front end (frontend/src/App.js): the auth      *)
(* context and localStorage, the route guard, the onboarding wizard and    *)
(* the feed page with its Explain, Ask and feedback handlers.  An async    *)
(* handler is split at its await: one action up to the request, one for    *)
(* the continuation that runs when the response arrives.                   *)
(***************************************************************************)
EXTENDS Integers, Sequences, FiniteSets, TLC

\* ---------------------------------------------------------------- bounds
MaxQueryLen == 1
MaxAsk == 1
MaxFeedback == 2
MaxPrefs == 1
MaxAuth == 1

\* ---------------------------------------------------------------- values
\* JavaScript undefined / null for string-valued slots, null for objects.
UNDEFINED == "undefined"
NullStr == "null"
NullObj == [null |-> TRUE]

\* JavaScript truthiness of a string-valued slot.
Truthy(s) == s \notin {UNDEFINED, NullStr, ""}

Levels == {"Beginner", "Intermediate", "Expert"}
DefaultLevel == "Intermediate"

NoContentMessage == "No content available to explain."
ExplainFailedMessage == "Failed to generate explanation. Please try again."
AskFailedMessage == "Failed to get an answer. Please try again."
FeedErrorMessage == "Could not fetch articles. Please try again later."
PrefsErrorMessage == "Could not save your preferences. Please try again."
LoginFailedMessage == "Login failed"
RegisterFailedMessage == "Registration failed"
InterestsErrorMessage == "Could not fetch available interests"

\* error.response.data.detail of a rejected login or registration, when the
\* response carries one.
LoginDetails == {UNDEFINED, "Incorrect email or password"}
RegisterDetails == {UNDEFINED, "Email already registered"}

\* Texts the backend generates (response.data.summary, response.data.answer).
GeneratedSummary == "generated summary"
GeneratedAnswer == "generated answer"

\* ------------------------------------------------------------- articles
Article(id, content, summary) ==
  [id |-> id, content |-> content, summary |-> summary, feedback |-> UNDEFINED]

A1 == Article("a1", "full-1", "sum-1")
A2 == Article("a2", NullStr, "sum-2")
A3 == Article(UNDEFINED, NullStr, NullStr)
A4 == Article(UNDEFINED, "full-4", "sum-4")
A5 == Article(UNDEFINED, "", "sum-5")
A6 == Article("a6", NullStr, NullStr)

\* Lists the article endpoints may answer with.
ArticleLists == {<<>>, <<A1, A2>>, <<A3, A4>>, <<A5, A6>>}

\* ---------------------------------------------------------------- users
Users == {"u1", "u2"}
ExistingAccounts == {"u1"}
InterestIds == {"i1", "i2"}
\* response.data of GET /interests
InterestList == <<"i1", "i2">>
TokenOf(u) == u

\* ---------------------------------------------------------------- query
Whitespace == {" "}
Chars == {" ", "a"}
Queries == UNION {[1..n -> Chars] : n \in 0..MaxQueryLen}

RECURSIVE TrimStart(_)
TrimStart(q) ==
  IF q = <<>> THEN q
  ELSE IF Head(q) \in Whitespace THEN TrimStart(Tail(q)) ELSE q

RECURSIVE TrimEnd(_)
TrimEnd(q) ==
  IF q = <<>> THEN q
  ELSE IF q[Len(q)] \in Whitespace THEN TrimEnd(SubSeq(q, 1, Len(q) - 1)) ELSE q

\* The trim forgotten: !query instead of !query.trim()
Trim_None(q) == q

\* String.prototype.trim
Trim(q) == TrimEnd(TrimStart(q))

RemoveAt(s, i) == SubSeq(s, 1, i - 1) \o SubSeq(s, i + 1, Len(s))

\* ---------------------------------------------------------------- state
VARIABLES
  accounts,            \* backend: registered users
  user,                \* AuthProvider: user
  lsToken,             \* localStorage "token"
  lsUser,              \* localStorage "user" (the JSON of a flat object)
  lsKnowledgeLevel,    \* localStorage "knowledgeLevel"
  page,                \* the route that is rendered
  formError,           \* LoginPage / RegisterPage: error
  authReqs,            \* POST /users/login and /users/register in flight
  pendingLoad,         \* the path of a document load that has been asked for
  step,                \* OnboardingPage
  interests,
  knowledgeLevel,
  onbError,
  onbLoading,          \* OnboardingPage: loading (GET /interests in flight)
  availableInterests,
  prefsReqs,           \* PUT /users/preferences in flight, with the closure
  articles,            \* FeedPage
  loading,
  error,
  activeArticle,
  explanation,
  explanationLoading,
  query,
  queryAnswer,
  queryLoading,
  fetchFeed,           \* position of the fetchFeed effect and its caught errors
  summarizeReqs,       \* POST /articles/summarize in flight
  askReqs,             \* POST /articles/ask in flight
  feedbackReqs,        \* POST /articles/{id}/feedback in flight, with the closure
  lastFeedback,        \* per article id, the type of the latest feedback issued
  feedbackFailed,      \* some feedback request of this feed page failed
  uncaught,            \* an exception escaped a handler
  lastHandler,         \* the handler that ran last and how it ended
  onboarded,           \* backend: users whose preferences PUT succeeded
  pendingNav,          \* RegisterPage: the navigate calls that have yet to run
  rankCall,            \* Feed Ranker: one call of rank, its inputs and output
  routeRender          \* ProtectedRoute: one render, its props, context and element

authVars == <<accounts, user, lsToken, lsUser, lsKnowledgeLevel, onboarded>>
auxVars == <<pendingNav, rankCall, routeRender>>
onbVars == <<step, interests, knowledgeLevel, onbError, onbLoading,
             availableInterests>>
netVars == <<authReqs, pendingLoad>>
feedVars == <<articles, loading, error, activeArticle, explanation,
              explanationLoading, query, queryAnswer, queryLoading, fetchFeed,
              summarizeReqs, askReqs, feedbackReqs, lastFeedback, feedbackFailed>>
vars == <<accounts, user, lsToken, lsUser, lsKnowledgeLevel, page, formError,
          authReqs, pendingLoad,
          step, interests, knowledgeLevel, onbError, onbLoading,
          availableInterests, prefsReqs,
          articles, loading, error, activeArticle, explanation,
          explanationLoading, query, queryAnswer, queryLoading, fetchFeed,
          summarizeReqs, askReqs, feedbackReqs, lastFeedback, feedbackFailed,
          uncaught, lastHandler, onboarded, pendingNav, rankCall, routeRender>>

ArticleIds == {"a1", "a2", "a6", UNDEFINED}
NoFeedback == [a \in ArticleIds |-> UNDEFINED]

\* ----------------------------------------------------------------- routing
\* The paths of the <Route> elements of App.
Pages == {"/", "/login", "/register", "/onboarding", "/feed",
          "/articles/:articleId", "/explore", "/profile"}
RequireOnboarding(p) == p \in {"/feed", "/articles/:articleId", "/explore", "/profile"}
Protected(p) == p = "/onboarding" \/ RequireOnboarding(p)

\* user.isNewUser as a condition: an absent field is undefined, hence falsy.
IsNewUser(u) == "isNewUser" \in DOMAIN u /\ u.isNewUser

\* The routes of App that are wrapped in ProtectedRoute, with the pathnames
\* the browser can have when each is matched.
ProtectedRoutes ==
  {[path |-> "/onboarding", pathname |-> "/onboarding", requireOnboarding |-> FALSE],
   [path |-> "/feed", pathname |-> "/feed", requireOnboarding |-> TRUE],
   [path |-> "/explore", pathname |-> "/explore", requireOnboarding |-> TRUE],
   [path |-> "/profile", pathname |-> "/profile", requireOnboarding |-> TRUE]}
  \cup {[path |-> "/articles/:articleId", pathname |-> "/articles/" \o a,
         requireOnboarding |-> TRUE] : a \in {"a1", "a2", "a6"}}

\* The element ProtectedRoute returns, from its prop requireOnboarding,
\* window.location.pathname and the user and loading of the auth context.
ProtectedRouteElement_NoLoading(requireOnboarding, pathname, u, ld) ==
  IF u = NullObj THEN "Navigate:/login"
  ELSE IF requireOnboarding /\ IsNewUser(u) /\ pathname # "/onboarding"
       THEN "Navigate:/onboarding"
  ELSE "children"

ProtectedRouteElement_NoNewUser(requireOnboarding, pathname, u, ld) ==
  IF ld THEN "Loading..."
  ELSE IF u = NullObj THEN "Navigate:/login"
  ELSE "children"

ProtectedRouteElement(requireOnboarding, pathname, u, ld) ==
  IF ld THEN "Loading..."
  ELSE IF u = NullObj THEN "Navigate:/login"
  ELSE IF requireOnboarding /\ IsNewUser(u) /\ pathname # "/onboarding"
       THEN "Navigate:/onboarding"
  ELSE "children"

\* ProtectedRoute (the auth context has finished loading): the path shown.
ProtectedRoute_AuthOnly(p, u) == IF u = NullObj THEN "/login" ELSE p

ProtectedRoute(p, u) ==
  LET element == ProtectedRouteElement(RequireOnboarding(p), p, u, FALSE) IN
  IF element = "Navigate:/login" THEN "/login"
  ELSE IF element = "Navigate:/onboarding" THEN "/onboarding"
  ELSE p

\* The route element for path p; LoginPage and RegisterPage navigate to /feed
\* when a user is set.
Route(p, u) ==
  IF p \in {"/login", "/register"}
  THEN (IF u # NullObj THEN ProtectedRoute("/feed", u) ELSE p)
  ELSE IF Protected(p) THEN ProtectedRoute(p, u)
  ELSE p

\* useState initial values of OnboardingPage; its mount effect sends
\* GET /interests, which is pending while onbLoading.
OnboardingMount ==
  /\ step' = 1
  /\ interests' = <<>>
  /\ knowledgeLevel' = DefaultLevel
  /\ onbError' = ""
  /\ onbLoading' = TRUE
  /\ availableInterests' = <<>>

\* useState initial values of FeedPage; started says whether the fetchFeed
\* effect has run (the page is mounted).
FeedState(started) ==
  /\ articles' = <<>>
  /\ loading' = TRUE
  /\ error' = ""
  /\ activeArticle' = NullObj
  /\ explanation' = ""
  /\ explanationLoading' = FALSE
  /\ query' = <<>>
  /\ queryAnswer' = ""
  /\ queryLoading' = FALSE
  /\ fetchFeed' = [pc |-> IF started THEN "feed" ELSE "idle", err |-> "none",
                   fallbackErr |-> FALSE, responses |-> <<>>, lost |-> FALSE]
  /\ summarizeReqs' = <<>>
  /\ askReqs' = <<>>
  /\ feedbackReqs' = <<>>
  /\ lastFeedback' = NoFeedback
  /\ feedbackFailed' = FALSE

\* The requests in flight once the page that sent them is unmounted: their
\* continuations still run, their setState calls no longer reach any state.
Unmounted(reqs) == [k \in DOMAIN reqs |-> [reqs[k] EXCEPT !.mounted = FALSE]]

\* The element of path p is mounted: every page starts from its initial
\* state.  fresh is TRUE for a document load, which also drops the requests
\* in flight; aReqs and pReqs are the requests that are left in flight.
Mount(p, fresh, aReqs, pReqs) ==
  /\ page' = p
  /\ formError' = ""
  /\ OnboardingMount
  /\ FeedState(p = "/feed")
  /\ authReqs' = (IF fresh THEN <<>> ELSE Unmounted(aReqs))
  /\ prefsReqs' = (IF fresh THEN <<>> ELSE Unmounted(pReqs))

\* The route does not change: the page on screen keeps its state.
Stay(aReqs, pReqs) ==
  /\ UNCHANGED <<page, formError, onbVars, feedVars>>
  /\ authReqs' = aReqs
  /\ prefsReqs' = pReqs

\* The router is at path p with u as the user of the auth context.  The
\* page on screen stays mounted only if p is its own route and p renders it;
\* a redirect back to the path of the page on screen mounts it anew.
Show(p, u, fresh, aReqs, pReqs) ==
  IF ~fresh /\ p = page /\ Route(p, u) = page
  THEN Stay(aReqs, pReqs)
  ELSE Mount(Route(p, u), fresh, aReqs, pReqs)

\* No call of rank and no render of ProtectedRoute is being followed.
NoRankCall ==
  [userPreferences |-> [interests |-> {}, feedback |-> {}], candidateArticles |-> {},
   trendingBonus |-> 2, dislikePenalty |-> 1, called |-> TRUE,
   orderedSequence |-> <<>>]
NoRouteRender ==
  [path |-> "/", pathname |-> "/", requireOnboarding |-> FALSE, user |-> NullObj,
   loading |-> FALSE, rendered |-> TRUE, element |-> "children"]

\* The application once AuthProvider's initial effect has run on an empty
\* localStorage.
InitApp ==
  /\ accounts = ExistingAccounts
  /\ onboarded = ExistingAccounts
  /\ pendingNav = {}
  /\ user = NullObj
  /\ lsToken = NullStr
  /\ lsUser = NullObj
  /\ lsKnowledgeLevel = NullStr
  /\ page = "/"
  /\ formError = ""
  /\ authReqs = <<>>
  /\ pendingLoad = NullStr
  /\ step = 1
  /\ interests = <<>>
  /\ knowledgeLevel = DefaultLevel
  /\ onbError = ""
  /\ onbLoading = TRUE
  /\ availableInterests = <<>>
  /\ prefsReqs = <<>>
  /\ articles = <<>>
  /\ loading = TRUE
  /\ error = ""
  /\ activeArticle = NullObj
  /\ explanation = ""
  /\ explanationLoading = FALSE
  /\ query = <<>>
  /\ queryAnswer = ""
  /\ queryLoading = FALSE
  /\ fetchFeed = [pc |-> "idle", err |-> "none", fallbackErr |-> FALSE, lost |-> FALSE,
                  responses |-> <<>>]
  /\ summarizeReqs = <<>>
  /\ askReqs = <<>>
  /\ feedbackReqs = <<>>
  /\ lastFeedback = NoFeedback
  /\ feedbackFailed = FALSE
  /\ uncaught = FALSE
  /\ lastHandler = "none"

Init ==
  /\ InitApp
  /\ rankCall = NoRankCall
  /\ routeRender = NoRouteRender

\* ------------------------------------------------------------------- auth
\* result.message of login and register: error.response?.data?.detail || text
FailureMessage(detail, text) == IF Truthy(detail) THEN detail ELSE text

\* The submit button of LoginPage and RegisterPage is disabled while the
\* page's own request is in flight (loading).
FormLoading == \E k \in DOMAIN authReqs : authReqs[k].mounted

\* LoginPage.handleSubmit up to the await in AuthProvider.login.
LoginSubmit(u) ==
  /\ page = "/login"
  /\ ~FormLoading
  /\ Len(authReqs) < MaxAuth
  /\ formError' = ""
  /\ authReqs' = Append(authReqs, [request |-> "login", email |-> u, mounted |-> TRUE])
  /\ lastHandler' = "none"
  /\ UNCHANGED <<authVars, page, onbVars, prefsReqs, feedVars, pendingLoad,
                 uncaught, auxVars>>

\* The continuation of login and of handleSubmit.  The backend accepts the
\* credentials of a registered user; a rejection may carry a detail.  The
\* navigate of handleSubmit runs whether or not LoginPage is still mounted.
LoginResponse(k, ok, detail) ==
  /\ k \in DOMAIN authReqs
  /\ authReqs[k].request = "login"
  /\ LET r == authReqs[k]
         rest == RemoveAt(authReqs, k) IN
     IF ok /\ r.email \in accounts
     THEN /\ lsToken' = TokenOf(r.email)
          /\ lsUser' = [id |-> r.email]
          /\ user' = [id |-> r.email]
          /\ Show("/feed", user', FALSE, rest, prefsReqs)
     ELSE /\ UNCHANGED <<lsToken, lsUser, user, page, onbVars, feedVars, prefsReqs>>
          /\ formError' = (IF r.mounted THEN FailureMessage(detail, LoginFailedMessage)
                           ELSE formError)
          /\ authReqs' = rest
  /\ lastHandler' = "none"
  /\ UNCHANGED <<accounts, lsKnowledgeLevel, onboarded, pendingLoad, uncaught, auxVars>>

\* RegisterPage.handleSubmit up to the await in AuthProvider.register.
RegisterSubmit(u) ==
  /\ page = "/register"
  /\ ~FormLoading
  /\ Len(authReqs) < MaxAuth
  /\ formError' = ""
  /\ authReqs' = Append(authReqs, [request |-> "register", email |-> u, mounted |-> TRUE])
  /\ lastHandler' = "none"
  /\ UNCHANGED <<authVars, page, onbVars, prefsReqs, feedVars, pendingLoad,
                 uncaught, auxVars>>

\* The continuation of register and of handleSubmit, up to the page that is
\* on screen when both navigations have run: the backend creates the account
\* unless the address is taken.
RegisterResponse(k, ok, detail) ==
  /\ k \in DOMAIN authReqs
  /\ authReqs[k].request = "register"
  /\ LET r == authReqs[k]
         rest == RemoveAt(authReqs, k) IN
     IF ok /\ r.email \notin accounts
     THEN /\ accounts' = accounts \cup {r.email}
          /\ lsToken' = TokenOf(r.email)
          /\ lsUser' = [id |-> r.email, isNewUser |-> TRUE]
          /\ user' = [id |-> r.email, isNewUser |-> TRUE]
          /\ Show("/onboarding", user', FALSE, rest, prefsReqs)
     ELSE /\ UNCHANGED <<accounts, lsToken, lsUser, user, page, onbVars, feedVars,
                         prefsReqs>>
          /\ formError' = (IF r.mounted THEN FailureMessage(detail, RegisterFailedMessage)
                           ELSE formError)
          /\ authReqs' = rest
  /\ lastHandler' = "none"
  /\ UNCHANGED <<lsKnowledgeLevel, onboarded, pendingLoad, uncaught, auxVars>>

\* The axios request interceptor: the headers it adds to a request that is
\* sent now.
RequestHeaders ==
  IF Truthy(lsToken) THEN [Authorization |-> <<"Bearer", lsToken>>] ELSE <<>>

\* logout without localStorage.removeItem("token").
Logout_KeepToken ==
  /\ user # NullObj
  /\ lsUser' = NullObj
  /\ user' = NullObj
  /\ Show(page, user', FALSE, authReqs, prefsReqs)
  /\ lastHandler' = "logout"
  /\ UNCHANGED <<accounts, lsToken, lsKnowledgeLevel, onboarded, pendingLoad,
                 uncaught, auxVars>>

\* AuthProvider.logout, from the NavBar of any page; the page on screen is
\* rendered again without a user.
Logout ==
  /\ user # NullObj
  /\ lsToken' = NullStr
  /\ lsUser' = NullObj
  /\ user' = NullObj
  /\ Show(page, user', FALSE, authReqs, prefsReqs)
  /\ lastHandler' = "logout"
  /\ UNCHANGED <<accounts, lsKnowledgeLevel, onboarded, pendingLoad, uncaught, auxVars>>

\* AuthProvider's initial effect: the user a full page load restores.
StoredUser == IF Truthy(lsToken) /\ lsUser # NullObj THEN lsUser ELSE NullObj

\* Client-side navigation to another path: a link of the NavBar or of a
\* page, or a step in the browser's history (popstate).  The entries of the
\* history are not followed, any path can be one: a visitor gets to the entry
\* of a protected route, pushed while a user was logged in, and ProtectedRoute
\* replaces it by /login, which mounts LoginPage anew.
Navigate(p) ==
  /\ p \in Pages
  /\ p # page
  /\ Show(p, user, FALSE, authReqs, prefsReqs)
  /\ lastHandler' = "none"
  /\ UNCHANGED <<authVars, pendingLoad, uncaught, auxVars>>

\* The address bar or a refresh: a full page load of path p.
PageLoad(p) ==
  /\ user' = StoredUser
  /\ Show(p, user', TRUE, authReqs, prefsReqs)
  /\ pendingLoad' = NullStr
  /\ lastHandler' = "none"
  /\ UNCHANGED <<accounts, lsToken, lsUser, lsKnowledgeLevel, onboarded, uncaught, auxVars>>

\* The document that window.location.href = '/feed' asked for arrives.
DocumentLoad ==
  /\ pendingLoad # NullStr
  /\ user' = StoredUser
  /\ Show(pendingLoad, user', TRUE, authReqs, prefsReqs)
  /\ pendingLoad' = NullStr
  /\ lastHandler' = "none"
  /\ UNCHANGED <<accounts, lsToken, lsUser, lsKnowledgeLevel, onboarded, uncaught, auxVars>>

\* ------------------------------------------------------------- onboarding
Includes(s, x) == \E k \in DOMAIN s : s[k] = x
Without(s, x) == LET keep(y) == y # x IN SelectSeq(s, keep)

\* OnboardingPage renders the wizard once GET /interests has been answered.
WizardShown == page = "/onboarding" /\ ~onbLoading

\* The continuation of fetchInterests, for the OnboardingPage on screen.
InterestsResponse(ok) ==
  /\ page = "/onboarding"
  /\ onbLoading
  /\ IF ok
     THEN /\ availableInterests' = InterestList
          /\ UNCHANGED onbError
     ELSE /\ onbError' = InterestsErrorMessage
          /\ UNCHANGED availableInterests
  /\ onbLoading' = FALSE
  /\ lastHandler' = "none"
  /\ UNCHANGED <<authVars, page, formError, step, interests, knowledgeLevel,
                 prefsReqs, feedVars, uncaught, auxVars, netVars>>

\* The list toggleInterest passes to setInterests.
toggleInterest_AlwaysAppend(list, interestId) == Append(list, interestId)

toggleInterest(list, interestId) ==
  IF Includes(list, interestId) THEN Without(list, interestId)
  ELSE Append(list, interestId)

\* OnboardingPage.toggleInterest, from the cards of step 1: one card for
\* each of the available interests.
ToggleInterest(i) ==
  /\ WizardShown
  /\ step = 1
  /\ Includes(availableInterests, i)
  /\ interests' = toggleInterest(interests, i)
  /\ lastHandler' = "none"
  /\ UNCHANGED <<authVars, page, formError, step, knowledgeLevel, onbError,
                 onbLoading, availableInterests,
                 prefsReqs, feedVars, uncaught, auxVars, netVars>>
\* handleNext behind a Next button that is never disabled.
HandleNext_AlwaysEnabled ==
  /\ WizardShown
  /\ step' = (IF step < 3 THEN step + 1 ELSE step)
  /\ lastHandler' = "handleNext"
  /\ UNCHANGED <<authVars, page, formError, interests, knowledgeLevel, onbError,
                 onbLoading, availableInterests,
                 prefsReqs, feedVars, uncaught, auxVars, netVars>>

\* OnboardingPage.handleNext; the Next button of step 1 is disabled while no
\* interest is selected.
HandleNext ==
  /\ WizardShown
  /\ step = 1 => interests # <<>>
  /\ step' = (IF step < 3 THEN step + 1 ELSE step)
  /\ lastHandler' = "handleNext"
  /\ UNCHANGED <<authVars, page, formError, interests, knowledgeLevel, onbError,
                 onbLoading, availableInterests,
                 prefsReqs, feedVars, uncaught, auxVars, netVars>>

\* handleBack without its test of step > 1.
HandleBack_NoTest ==
  /\ WizardShown
  /\ step' = step - 1
  /\ lastHandler' = "handleBack"
  /\ UNCHANGED <<authVars, page, formError, interests, knowledgeLevel, onbError,
                 onbLoading, availableInterests,
                 prefsReqs, feedVars, uncaught, auxVars, netVars>>

\* OnboardingPage.handleBack
HandleBack ==
  /\ WizardShown
  /\ step' = (IF step > 1 THEN step - 1 ELSE step)
  /\ lastHandler' = "handleBack"
  /\ UNCHANGED <<authVars, page, formError, interests, knowledgeLevel, onbError,
                 onbLoading, availableInterests,
                 prefsReqs, feedVars, uncaught, auxVars, netVars>>

\* The three level cards of step 2.
SetKnowledgeLevel(k) ==
  /\ WizardShown
  /\ step = 2
  /\ knowledgeLevel' = k
  /\ lastHandler' = "none"
  /\ UNCHANGED <<authVars, page, formError, step, interests, onbError,
                 onbLoading, availableInterests,
                 prefsReqs, feedVars, uncaught, auxVars, netVars>>

\* OnboardingPage.handleSubmit up to its await: the PUT carries the interests
\* and level of this render, the continuation keeps this render's user.
HandleSubmit ==
  /\ WizardShown
  /\ step = 3
  /\ Len(prefsReqs) < MaxPrefs
  /\ prefsReqs' = Append(prefsReqs,
       [interests |-> interests, knowledge_level |-> knowledgeLevel,
        user |-> user, mounted |-> TRUE])
  /\ lastHandler' = "none"
  /\ UNCHANGED <<authVars, page, formError, onbVars, feedVars, uncaught, auxVars,
                 netVars>>
\* The continuation of a handleSubmit that records the completion whatever
\* the answer to the PUT.
PrefsResponse_RecordAlways(k, ok) ==
  /\ k \in DOMAIN prefsReqs
  /\ LET r == prefsReqs[k]
         rest == RemoveAt(prefsReqs, k) IN
     IF ok
     THEN /\ lsUser' = [id |-> r.user.id, isNewUser |-> FALSE]
          /\ lsKnowledgeLevel' = r.knowledge_level
          /\ pendingLoad' = "/feed"
          /\ onboarded' = onboarded \cup {r.user.id}
          /\ Show("/feed", user, FALSE, authReqs, rest)
          /\ lastHandler' = "handleSubmit:ok"
     ELSE /\ lsUser' = [id |-> r.user.id, isNewUser |-> FALSE]
          /\ lsKnowledgeLevel' = r.knowledge_level
          /\ onbError' = (IF r.mounted THEN PrefsErrorMessage ELSE onbError)
          /\ prefsReqs' = rest
          /\ lastHandler' = "handleSubmit:failed"
          /\ UNCHANGED <<onboarded, page, formError, step, interests,
                         knowledgeLevel, onbLoading, availableInterests,
                         feedVars, authReqs, pendingLoad>>
  /\ UNCHANGED <<accounts, user, lsToken, uncaught, auxVars>>


\* The continuation of handleSubmit.  On success the stored user is marked
\* as onboarded, the level is stored, window.location.href = '/feed' asks
\* for the document to be loaded anew and navigate('/feed') runs with the
\* user of the auth context as it is; on failure the error is set.
PrefsResponse(k, ok) ==
  /\ k \in DOMAIN prefsReqs
  /\ LET r == prefsReqs[k]
         rest == RemoveAt(prefsReqs, k) IN
     IF ok
     THEN /\ IF r.user # NullObj
             THEN /\ lsUser' = [id |-> r.user.id, isNewUser |-> FALSE]
                  /\ lsKnowledgeLevel' = r.knowledge_level
                  /\ pendingLoad' = "/feed"
                  /\ onboarded' = onboarded \cup {r.user.id}
             ELSE UNCHANGED <<lsUser, lsKnowledgeLevel, pendingLoad, onboarded>>
          /\ Show("/feed", user, FALSE, authReqs, rest)
          /\ lastHandler' = "handleSubmit:ok"
     ELSE /\ onbError' = (IF r.mounted THEN PrefsErrorMessage ELSE onbError)
          /\ prefsReqs' = rest
          /\ lastHandler' = "handleSubmit:failed"
          /\ UNCHANGED <<lsUser, lsKnowledgeLevel, onboarded, page, formError,
                         step, interests, knowledgeLevel, onbLoading,
                         availableInterests, feedVars, authReqs, pendingLoad>>
  /\ UNCHANGED <<accounts, user, lsToken, uncaught, auxVars>>

\* ------------------------------------------------------------------- feed
FeedShown == page = "/feed" /\ ~loading

\* The answers fetchFeed has received so far, with one more: the request it
\* answers and, when it succeeded, the list it carried.
Answered(responses, request, ok, data) ==
  Append(responses,
         [request |-> request, ok |-> ok, data |-> IF ok THEN data ELSE <<>>])
\* fetchFeed that asks for the general list whatever the personalized feed
\* answered.
FeedResponse_AlwaysGeneral(ok, data) ==
  /\ page = "/feed"
  /\ fetchFeed.pc = "feed"
  /\ ~fetchFeed.lost
  /\ fetchFeed' = (IF ok THEN [fetchFeed EXCEPT !.pc = "general",
                                !.responses = Answered(@, "feed", ok, data)]
                   ELSE [fetchFeed EXCEPT !.pc = "fallback", !.err = "feed",
                           !.responses = Answered(@, "feed", ok, data)])
  /\ lastHandler' = "none"
  /\ UNCHANGED <<authVars, page, formError, onbVars, prefsReqs, articles, loading,
                 error, activeArticle, explanation, explanationLoading, query,
                 queryAnswer, queryLoading, summarizeReqs, askReqs,
                 feedbackReqs, lastFeedback, feedbackFailed, uncaught, auxVars, netVars>>

\* fetchFeed, the continuation of GET /articles/feed.
FeedResponse(ok, data) ==
  /\ page = "/feed"
  /\ fetchFeed.pc = "feed"
  /\ ~fetchFeed.lost
  /\ IF ok /\ Len(data) > 0
     THEN /\ articles' = data
          /\ loading' = FALSE
          /\ fetchFeed' = [fetchFeed EXCEPT !.pc = "done",
                             !.responses = Answered(@, "feed", ok, data)]
     ELSE /\ fetchFeed' = (IF ok THEN [fetchFeed EXCEPT !.pc = "general",
                                         !.responses = Answered(@, "feed", ok, data)]
                           ELSE [fetchFeed EXCEPT !.pc = "fallback", !.err = "feed",
                                   !.responses = Answered(@, "feed", ok, data)])
          /\ UNCHANGED <<articles, loading>>
  /\ lastHandler' = "none"
  /\ UNCHANGED <<authVars, page, formError, onbVars, prefsReqs, error,
                 activeArticle, explanation, explanationLoading, query,
                 queryAnswer, queryLoading, summarizeReqs, askReqs,
                 feedbackReqs, lastFeedback, feedbackFailed, uncaught, auxVars, netVars>>

\* fetchFeed, the continuation of GET /articles after an empty feed.
GeneralResponse(ok, data) ==
  /\ page = "/feed"
  /\ fetchFeed.pc = "general"
  /\ ~fetchFeed.lost
  /\ IF ok
     THEN /\ articles' = data
          /\ loading' = FALSE
          /\ fetchFeed' = [fetchFeed EXCEPT !.pc = "done",
                             !.responses = Answered(@, "general", ok, data)]
     ELSE /\ fetchFeed' = [fetchFeed EXCEPT !.pc = "fallback", !.err = "general",
                             !.responses = Answered(@, "general", ok, data)]
          /\ UNCHANGED <<articles, loading>>
  /\ lastHandler' = "none"
  /\ UNCHANGED <<authVars, page, formError, onbVars, prefsReqs, error,
                 activeArticle, explanation, explanationLoading, query,
                 queryAnswer, queryLoading, summarizeReqs, askReqs,
                 feedbackReqs, lastFeedback, feedbackFailed, uncaught, auxVars, netVars>>

\* The inner catch without setError: a failed fallback is not reported.
FallbackResponse_Silent(ok, data) ==
  /\ page = "/feed"
  /\ fetchFeed.pc = "fallback"
  /\ ~fetchFeed.lost
  /\ IF ok THEN articles' = data ELSE UNCHANGED articles
  /\ UNCHANGED error
  /\ loading' = FALSE
  /\ fetchFeed' = [fetchFeed EXCEPT !.pc = "done", !.fallbackErr = ~ok,
                     !.responses = Answered(@, "fallback", ok, data)]
  /\ lastHandler' = "none"
  /\ UNCHANGED <<authVars, page, formError, onbVars, prefsReqs,
                 activeArticle, explanation, explanationLoading, query,
                 queryAnswer, queryLoading, summarizeReqs, askReqs,
                 feedbackReqs, lastFeedback, feedbackFailed, uncaught, auxVars, netVars>>

\* fetchFeed, the continuation of GET /articles in the catch block.
FallbackResponse(ok, data) ==
  /\ page = "/feed"
  /\ fetchFeed.pc = "fallback"
  /\ ~fetchFeed.lost
  /\ IF ok
     THEN /\ articles' = data
          /\ UNCHANGED error
     ELSE /\ error' = FeedErrorMessage
          /\ UNCHANGED articles
  /\ loading' = FALSE
  /\ fetchFeed' = [fetchFeed EXCEPT !.pc = "done", !.fallbackErr = ~ok,
                     !.responses = Answered(@, "fallback", ok, data)]
  /\ lastHandler' = "none"
  /\ UNCHANGED <<authVars, page, formError, onbVars, prefsReqs,
                 activeArticle, explanation, explanationLoading, query,
                 queryAnswer, queryLoading, summarizeReqs, askReqs,
                 feedbackReqs, lastFeedback, feedbackFailed, uncaught, auxVars, netVars>>

\* The backend never answers the GET that fetchFeed awaits: no timeout is
\* configured on axios.get, so the promise stays pending and the continuation
\* never runs.
FeedSilent ==
  /\ page = "/feed"
  /\ fetchFeed.pc \in {"feed", "general", "fallback"}
  /\ ~fetchFeed.lost
  /\ fetchFeed' = [fetchFeed EXCEPT !.lost = TRUE]
  /\ lastHandler' = "none"
  /\ UNCHANGED <<authVars, page, formError, onbVars, prefsReqs, articles,
                 loading, error, activeArticle, explanation,
                 explanationLoading, query, queryAnswer, queryLoading,
                 summarizeReqs, askReqs, feedbackReqs, lastFeedback,
                 feedbackFailed, uncaught, auxVars, netVars>>

\* FeedPage.handleArticleClick, from a card of the list.
HandleArticleClick(i) ==
  /\ FeedShown
  /\ i \in DOMAIN articles
  /\ activeArticle' = articles[i]
  /\ explanation' = ""
  /\ query' = <<>>
  /\ queryAnswer' = ""
  /\ lastHandler' = "none"
  /\ UNCHANGED <<authVars, page, formError, onbVars, prefsReqs, articles,
                 loading, error, explanationLoading, queryLoading, fetchFeed,
                 summarizeReqs, askReqs, feedbackReqs, lastFeedback,
                 feedbackFailed, uncaught, auxVars, netVars>>

\* The query input's onChange.
SetQuery(q) ==
  /\ FeedShown
  /\ activeArticle # NullObj
  /\ q # query
  /\ query' = q
  /\ lastHandler' = "none"
  /\ UNCHANGED <<authVars, page, formError, onbVars, prefsReqs, articles,
                 loading, error, activeArticle, explanation,
                 explanationLoading, queryAnswer, queryLoading, fetchFeed,
                 summarizeReqs, askReqs, feedbackReqs, lastFeedback,
                 feedbackFailed, uncaught, auxVars, netVars>>

\* The preference reversed: activeArticle.summary || activeArticle.content
ContentToExplain_SummaryFirst(a) == IF Truthy(a.summary) THEN a.summary ELSE a.content

\* const contentToExplain = activeArticle.content || activeArticle.summary
ContentToExplain(a) == IF Truthy(a.content) THEN a.content ELSE a.summary

\* The default forgotten: localStorage.getItem("knowledgeLevel")
RequestLevel_NoDefault(stored) == stored

\* localStorage.getItem("knowledgeLevel") || "Intermediate"
RequestLevel(stored) == IF Truthy(stored) THEN stored ELSE DefaultLevel

\* The check of contentToExplain forgotten: the request is sent in any case.
HandleExplain_NoCheck ==
  /\ FeedShown
  /\ activeArticle # NullObj
  /\ ~explanationLoading
  /\ explanationLoading' = TRUE
  /\ summarizeReqs' = Append(summarizeReqs,
       [content |-> ContentToExplain(activeArticle),
        knowledge_level |-> RequestLevel(lsKnowledgeLevel),
        status |-> "pending"])
  /\ UNCHANGED explanation
  /\ lastHandler' = "handleExplain:sent"
  /\ UNCHANGED <<authVars, page, formError, onbVars, prefsReqs, articles,
                 loading, error, activeArticle, query, queryAnswer,
                 queryLoading, fetchFeed, askReqs, feedbackReqs, lastFeedback,
                 feedbackFailed, uncaught, auxVars, netVars>>

\* FeedPage.handleExplain up to its await; the button is disabled while
\* explanationLoading.  Without text the handler ends here.
HandleExplain ==
  /\ FeedShown
  /\ activeArticle # NullObj
  /\ ~explanationLoading
  /\ IF ~Truthy(ContentToExplain(activeArticle))
     THEN /\ explanation' = NoContentMessage
          /\ explanationLoading' = FALSE
          /\ UNCHANGED summarizeReqs
          /\ lastHandler' = "handleExplain:absent"
     ELSE /\ explanationLoading' = TRUE
          /\ summarizeReqs' = Append(summarizeReqs,
               [content |-> ContentToExplain(activeArticle),
                knowledge_level |-> RequestLevel(lsKnowledgeLevel),
                status |-> "pending"])
          /\ UNCHANGED explanation
          /\ lastHandler' = "handleExplain:sent"
  /\ UNCHANGED <<authVars, page, formError, onbVars, prefsReqs, articles,
                 loading, error, activeArticle, query, queryAnswer,
                 queryLoading, fetchFeed, askReqs, feedbackReqs, lastFeedback,
                 feedbackFailed, uncaught, auxVars, netVars>>

\* The finally block forgotten: a failure leaves explanationLoading set.
SummarizeResponse_NoFinally(k, ok) ==
  /\ page = "/feed"
  /\ k \in DOMAIN summarizeReqs
  /\ summarizeReqs[k].status = "pending"
  /\ explanation' = (IF ok THEN GeneratedSummary ELSE ExplainFailedMessage)
  /\ explanationLoading' = (IF ok THEN FALSE ELSE explanationLoading)
  /\ summarizeReqs' = RemoveAt(summarizeReqs, k)
  /\ lastHandler' = (IF ok THEN "handleExplain:ok" ELSE "handleExplain:failed")
  /\ UNCHANGED <<authVars, page, formError, onbVars, prefsReqs, articles,
                 loading, error, activeArticle, query, queryAnswer,
                 queryLoading, fetchFeed, askReqs, feedbackReqs, lastFeedback,
                 feedbackFailed, uncaught, auxVars, netVars>>

\* The continuation of handleExplain: try, catch and finally.
SummarizeResponse(k, ok) ==
  /\ page = "/feed"
  /\ k \in DOMAIN summarizeReqs
  /\ summarizeReqs[k].status = "pending"
  /\ explanation' = (IF ok THEN GeneratedSummary ELSE ExplainFailedMessage)
  /\ explanationLoading' = FALSE
  /\ summarizeReqs' = RemoveAt(summarizeReqs, k)
  /\ lastHandler' = (IF ok THEN "handleExplain:ok" ELSE "handleExplain:failed")
  /\ UNCHANGED <<authVars, page, formError, onbVars, prefsReqs, articles,
                 loading, error, activeArticle, query, queryAnswer,
                 queryLoading, fetchFeed, askReqs, feedbackReqs, lastFeedback,
                 feedbackFailed, uncaught, auxVars, netVars>>

\* The branches in the other order: the text first, the identifier last.
AskPayload_ContextFirst(q, a) ==
  [query |-> q,
   article_id |-> IF ~Truthy(a.content) /\ ~Truthy(a.summary) /\ Truthy(a.id)
                  THEN a.id ELSE UNDEFINED,
   context |-> IF Truthy(a.content) THEN a.content
               ELSE IF Truthy(a.summary) THEN a.summary
               ELSE UNDEFINED]

\* The payload of POST /articles/ask.
AskPayload(q, a) ==
  [query |-> q,
   article_id |-> IF Truthy(a.id) THEN a.id ELSE UNDEFINED,
   context |-> IF Truthy(a.id) THEN UNDEFINED
               ELSE IF Truthy(a.content) THEN a.content
               ELSE IF Truthy(a.summary) THEN a.summary
               ELSE UNDEFINED]

\* FeedPage.handleQuerySubmit up to its await, from the form's onSubmit.
HandleQuerySubmit ==
  /\ FeedShown
  /\ activeArticle # NullObj
  /\ IF Trim(query) = <<>>
     THEN /\ UNCHANGED <<queryLoading, askReqs>>
          /\ lastHandler' = "handleQuerySubmit:rejected"
     ELSE /\ Len(askReqs) < MaxAsk
          /\ queryLoading' = TRUE
          /\ askReqs' = Append(askReqs,
               AskPayload(query, activeArticle) @@ [status |-> "pending"])
          /\ lastHandler' = "handleQuerySubmit:sent"
  /\ UNCHANGED <<authVars, page, formError, onbVars, prefsReqs, articles,
                 loading, error, activeArticle, explanation,
                 explanationLoading, query, queryAnswer, fetchFeed,
                 summarizeReqs, feedbackReqs, lastFeedback, feedbackFailed,
                 uncaught, auxVars, netVars>>

\* The continuation of handleQuerySubmit: try, catch and finally.
AskResponse(k, ok) ==
  /\ page = "/feed"
  /\ k \in DOMAIN askReqs
  /\ askReqs[k].status = "pending"
  /\ queryAnswer' = (IF ok THEN GeneratedAnswer ELSE AskFailedMessage)
  /\ queryLoading' = FALSE
  /\ askReqs' = RemoveAt(askReqs, k)
  /\ lastHandler' = (IF ok THEN "handleQuerySubmit:ok" ELSE "handleQuerySubmit:failed")
  /\ UNCHANGED <<authVars, page, formError, onbVars, prefsReqs, articles,
                 loading, error, activeArticle, explanation,
                 explanationLoading, query, fetchFeed, summarizeReqs,
                 feedbackReqs, lastFeedback, feedbackFailed, uncaught, auxVars, netVars>>

\* The generation backend never answers a request: no timeout is configured
\* on the axios calls, so the promise stays pending.
BackendSilent ==
  /\ page = "/feed"
  /\ \/ \E k \in DOMAIN summarizeReqs :
          /\ summarizeReqs[k].status = "pending"
          /\ summarizeReqs' = [summarizeReqs EXCEPT ![k].status = "lost"]
          /\ UNCHANGED askReqs
     \/ \E k \in DOMAIN askReqs :
          /\ askReqs[k].status = "pending"
          /\ askReqs' = [askReqs EXCEPT ![k].status = "lost"]
          /\ UNCHANGED summarizeReqs
  /\ lastHandler' = "none"
  /\ UNCHANGED <<authVars, page, formError, onbVars, prefsReqs, articles,
                 loading, error, activeArticle, explanation,
                 explanationLoading, query, queryAnswer, queryLoading,
                 fetchFeed, feedbackReqs, lastFeedback, feedbackFailed,
                 uncaught, auxVars, netVars>>

\* articles.map(...) of handleFeedback
WithFeedback(list, articleId, type) ==
  [k \in DOMAIN list |->
     IF list[k].id = articleId THEN [list[k] EXCEPT !.feedback = type]
     ELSE list[k]]

\* FeedPage.handleFeedback up to its await, from the Like / Dislike buttons
\* of card i; the continuation keeps this render's articles.
HandleFeedback(i, type) ==
  /\ FeedShown
  /\ i \in DOMAIN articles
  /\ Len(feedbackReqs) < MaxFeedback
  /\ feedbackReqs' = Append(feedbackReqs,
       [articleId |-> articles[i].id, type |-> type, articles |-> articles])
  /\ lastFeedback' = [lastFeedback EXCEPT ![articles[i].id] = type]
  /\ lastHandler' = "handleFeedback:sent"
  /\ UNCHANGED <<authVars, page, formError, onbVars, prefsReqs, articles,
                 loading, error, activeArticle, explanation,
                 explanationLoading, query, queryAnswer, queryLoading,
                 fetchFeed, summarizeReqs, askReqs, feedbackFailed, uncaught, auxVars, netVars>>

\* The continuation of handleFeedback.
FeedbackResponse(k, ok) ==
  /\ page = "/feed"
  /\ k \in DOMAIN feedbackReqs
  /\ LET r == feedbackReqs[k] IN
     IF ok
     THEN /\ articles' = WithFeedback(r.articles, r.articleId, r.type)
          /\ UNCHANGED feedbackFailed
          /\ lastHandler' = "handleFeedback:ok"
     ELSE /\ feedbackFailed' = TRUE
          /\ UNCHANGED articles
          /\ lastHandler' = "handleFeedback:failed"
  /\ feedbackReqs' = RemoveAt(feedbackReqs, k)
  /\ UNCHANGED <<authVars, page, formError, onbVars, prefsReqs, loading,
                 error, activeArticle, explanation, explanationLoading, query,
                 queryAnswer, queryLoading, fetchFeed, summarizeReqs, askReqs,
                 lastFeedback, uncaught, auxVars, netVars>>

\* ---------------------------------------------------------- specification
Next ==
  \/ \E u \in Users : LoginSubmit(u)
  \/ \E k \in 1..MaxAuth, ok \in BOOLEAN, detail \in LoginDetails :
       LoginResponse(k, ok, detail)
  \/ \E u \in Users : RegisterSubmit(u)
  \/ \E k \in 1..MaxAuth, ok \in BOOLEAN, detail \in RegisterDetails :
       RegisterResponse(k, ok, detail)
  \/ Logout
  \/ \E p \in Pages : Navigate(p)
  \/ \E p \in Pages : PageLoad(p)
  \/ \E ok \in BOOLEAN : InterestsResponse(ok)
  \/ \E i \in InterestIds : ToggleInterest(i)
  \/ HandleNext
  \/ HandleBack
  \/ \E k \in Levels : SetKnowledgeLevel(k)
  \/ HandleSubmit
  \/ \E k \in 1..MaxPrefs, ok \in BOOLEAN : PrefsResponse(k, ok)
  \/ DocumentLoad
  \/ \E ok \in BOOLEAN, data \in ArticleLists : FeedResponse(ok, data)
  \/ \E ok \in BOOLEAN, data \in ArticleLists : GeneralResponse(ok, data)
  \/ \E ok \in BOOLEAN, data \in ArticleLists : FallbackResponse(ok, data)
  \/ FeedSilent
  \/ \E i \in 1..2 : HandleArticleClick(i)
  \/ \E q \in Queries : SetQuery(q)
  \/ HandleExplain
  \/ \E ok \in BOOLEAN : SummarizeResponse(1, ok)
  \/ HandleQuerySubmit
  \/ \E k \in 1..MaxAsk, ok \in BOOLEAN : AskResponse(k, ok)
  \/ BackendSilent
  \/ \E i \in 1..2, type \in {"like", "dislike"} : HandleFeedback(i, type)
  \/ \E k \in 1..MaxFeedback, ok \in BOOLEAN : FeedbackResponse(k, ok)

Spec == Init /\ [][Next]_vars

\* The paths the user of a feature specification navigates to: a link of
\* the NavBar for a visitor and for a user, and the pages the feature is on.
FeedPaths == {"/", "/login", "/feed", "/explore"}
WizardPaths == {"/", "/register", "/onboarding", "/feed"}
LevelPaths == {"/", "/login", "/register", "/onboarding", "/feed"}
OnboardingPaths == {"/", "/login", "/register", "/onboarding", "/feed"}

\* A registered user signs in, one request at a time.
SignIn == authReqs = <<>> /\ \E u \in ExistingAccounts : LoginSubmit(u)

\* The lists the feed endpoints answer with where the articles' fields do
\* not matter: none, and two articles.
ShortLists == {<<>>, <<A1, A2>>}

\* The feed page with Explain and Ask, for a registered user.
NextAssist ==
  \/ SignIn
  \/ \E k \in 1..MaxAuth, ok \in BOOLEAN, detail \in LoginDetails :
       LoginResponse(k, ok, detail)
  \/ Logout
  \/ \E p \in FeedPaths : Navigate(p)
  \/ \E ok \in BOOLEAN, data \in ShortLists : FeedResponse(ok, data)
  \/ \E ok \in BOOLEAN, data \in ShortLists : GeneralResponse(ok, data)
  \/ \E ok \in BOOLEAN, data \in ShortLists : FallbackResponse(ok, data)
  \/ \E i \in 1..2 : HandleArticleClick(i)
  \/ \E q \in Queries : SetQuery(q)
  \/ HandleExplain
  \/ \E ok \in BOOLEAN : SummarizeResponse(1, ok)
  \/ HandleQuerySubmit
  \/ \E k \in 1..MaxAsk, ok \in BOOLEAN : AskResponse(k, ok)
  \/ BackendSilent

AssistSpec == Init /\ [][NextAssist]_vars

\* The event loop runs the continuation of every request that is answered.
Fairness ==
  /\ WF_vars(\E ok \in BOOLEAN : SummarizeResponse(1, ok))
  /\ WF_vars(\E k \in 1..MaxAsk, ok \in BOOLEAN : AskResponse(k, ok))

FairAssistSpec == AssistSpec /\ Fairness

\* The feed page with Explain alone.
NextExplain ==
  \/ SignIn
  \/ \E k \in 1..MaxAuth, ok \in BOOLEAN, detail \in LoginDetails :
       LoginResponse(k, ok, detail)
  \/ Logout
  \/ \E p \in FeedPaths : Navigate(p)
  \/ \E ok \in BOOLEAN, data \in ArticleLists : FeedResponse(ok, data)
  \/ \E ok \in BOOLEAN, data \in ArticleLists : GeneralResponse(ok, data)
  \/ \E ok \in BOOLEAN, data \in ArticleLists : FallbackResponse(ok, data)
  \/ \E i \in 1..2 : HandleArticleClick(i)
  \/ HandleExplain
  \/ \E ok \in BOOLEAN : SummarizeResponse(1, ok)

ExplainSpec == Init /\ [][NextExplain]_vars

\* The feed page with Ask alone.
NextAsk ==
  \/ SignIn
  \/ \E k \in 1..MaxAuth, ok \in BOOLEAN, detail \in LoginDetails :
       LoginResponse(k, ok, detail)
  \/ Logout
  \/ \E p \in FeedPaths : Navigate(p)
  \/ \E ok \in BOOLEAN, data \in ArticleLists : FeedResponse(ok, data)
  \/ \E ok \in BOOLEAN, data \in ArticleLists : GeneralResponse(ok, data)
  \/ \E ok \in BOOLEAN, data \in ArticleLists : FallbackResponse(ok, data)
  \/ \E i \in 1..2 : HandleArticleClick(i)
  \/ \E q \in Queries : SetQuery(q)
  \/ HandleQuerySubmit
  \/ \E k \in 1..MaxAsk, ok \in BOOLEAN : AskResponse(k, ok)

AskSpec == Init /\ [][NextAsk]_vars

\* Registration, onboarding and the knowledge level of Explain; the user
\* picks among the interests LevelInterests and the personalized feed
\* answers with a list of LevelLists.
LevelInterests == {"i1"}
LevelLists == {<<A1, A2>>}

NextLevel ==
  \/ \E u \in Users : authReqs = <<>> /\ LoginSubmit(u)
  \/ \E k \in 1..MaxAuth, ok \in BOOLEAN, detail \in LoginDetails :
       LoginResponse(k, ok, detail)
  \/ \E u \in Users : authReqs = <<>> /\ RegisterSubmit(u)
  \/ \E k \in 1..MaxAuth, ok \in BOOLEAN, detail \in RegisterDetails :
       RegisterResponse(k, ok, detail)
  \/ Logout
  \/ \E p \in LevelPaths : Navigate(p)
  \/ \E ok \in BOOLEAN : InterestsResponse(ok)
  \/ \E i \in LevelInterests : ToggleInterest(i)
  \/ HandleNext
  \/ HandleBack
  \/ \E k \in Levels : SetKnowledgeLevel(k)
  \/ HandleSubmit
  \/ \E k \in 1..MaxPrefs, ok \in BOOLEAN : PrefsResponse(k, ok)
  \/ DocumentLoad
  \/ \E data \in LevelLists : FeedResponse(TRUE, data)
  \/ \E i \in 1..2 : HandleArticleClick(i)
  \/ HandleExplain
  \/ \E ok \in BOOLEAN : SummarizeResponse(1, ok)

LevelSpec == Init /\ [][NextLevel]_vars

\* The feed page with the Like and Dislike buttons.
NextFeedback ==
  \/ SignIn
  \/ \E k \in 1..MaxAuth, ok \in BOOLEAN, detail \in LoginDetails :
       LoginResponse(k, ok, detail)
  \/ Logout
  \/ \E p \in FeedPaths : Navigate(p)
  \/ \E ok \in BOOLEAN, data \in ShortLists : FeedResponse(ok, data)
  \/ \E ok \in BOOLEAN, data \in ShortLists : GeneralResponse(ok, data)
  \/ \E ok \in BOOLEAN, data \in ShortLists : FallbackResponse(ok, data)
  \/ \E i \in 1..2, type \in {"like", "dislike"} : HandleFeedback(i, type)
  \/ \E k \in 1..MaxFeedback, ok \in BOOLEAN : FeedbackResponse(k, ok)

FeedbackSpec == Init /\ [][NextFeedback]_vars

\* ------------------------------------------------------------- properties
LastSummarize == summarizeReqs[Len(summarizeReqs)]
LastAsk == askReqs[Len(askReqs)]
ExplainRan == lastHandler \in {"handleExplain:absent", "handleExplain:sent"}
AskRan == lastHandler \in {"handleQuerySubmit:rejected", "handleQuerySubmit:sent"}
IsBlank(q) == \A k \in DOMAIN q : q[k] \in Whitespace

\* C1: the text Explain hands to summarization is the active article's full
\* content when present, else its summary when present, else nothing is sent.
C1_ContentResolution ==
  [][ExplainRan' =>
       IF Truthy(activeArticle.content)
       THEN /\ summarizeReqs' = Append(summarizeReqs, LastSummarize')
            /\ LastSummarize'.content = activeArticle.content
       ELSE IF Truthy(activeArticle.summary)
       THEN /\ summarizeReqs' = Append(summarizeReqs, LastSummarize')
            /\ LastSummarize'.content = activeArticle.summary
       ELSE summarizeReqs' = summarizeReqs]_vars

\* C1 witness: Explain fell back to the summary of an article without content.
C1_Witness ==
  /\ lastHandler = "handleExplain:sent"
  /\ ~Truthy(activeArticle.content)
  /\ LastSummarize.content = activeArticle.summary

\* C2: Explain on an article with neither content nor summary sets the
\* sentinel message, sends no summarize request and leaves explanationLoading
\* false.
C2_AbsentShortCircuit ==
  [][(ExplainRan' /\ ~Truthy(activeArticle.content) /\ ~Truthy(activeArticle.summary)) =>
       /\ explanation' = NoContentMessage
       /\ summarizeReqs' = summarizeReqs
       /\ explanationLoading' = FALSE]_vars

\* C2 witness: Explain has just ended on an article without any text.
C2_Witness ==
  /\ lastHandler = "handleExplain:absent"
  /\ ~Truthy(activeArticle.content) /\ ~Truthy(activeArticle.summary)
  /\ explanation = NoContentMessage
  /\ summarizeReqs = <<>>

\* C3: a submit with an empty or whitespace-only query sends no ask request
\* and changes neither queryLoading nor queryAnswer.
C3_BlankQueryRejected ==
  [][(AskRan' /\ IsBlank(query)) =>
       /\ askReqs' = askReqs
       /\ queryLoading' = queryLoading
       /\ queryAnswer' = queryAnswer]_vars

\* C3 witness: a submit of a query of whitespace has just been rejected.
C3_Witness ==
  /\ lastHandler = "handleQuerySubmit:rejected"
  /\ query # <<>>
  /\ IsBlank(query)
  /\ askReqs = <<>>

\* C4 as claimed: no ask request is sent without grounding, that is without
\* both article_id and context.
C4_NoUngroundedAsk ==
  \A k \in DOMAIN askReqs :
    Truthy(askReqs[k].article_id) \/ Truthy(askReqs[k].context)

\* C5: an ask request carries article_id and no context whenever the active
\* article has an identifier; without identifier it carries no article_id and
\* as context the content if present, else the summary.
C5_GroundingSelection ==
  [][lastHandler' = "handleQuerySubmit:sent" =>
       /\ askReqs' = Append(askReqs, LastAsk')
       /\ LastAsk'.query = query
       /\ IF Truthy(activeArticle.id)
          THEN LastAsk'.article_id = activeArticle.id /\ LastAsk'.context = UNDEFINED
          ELSE /\ LastAsk'.article_id = UNDEFINED
               /\ LastAsk'.context =
                    (IF Truthy(activeArticle.content) THEN activeArticle.content
                     ELSE IF Truthy(activeArticle.summary) THEN activeArticle.summary
                     ELSE UNDEFINED)]_vars

\* C5 witness: an ask for an article with identifier and content was sent
\* with the identifier only.
C5_Witness ==
  /\ lastHandler = "handleQuerySubmit:sent"
  /\ Truthy(activeArticle.id) /\ Truthy(activeArticle.content)
  /\ LastAsk.article_id = activeArticle.id
  /\ LastAsk.context = UNDEFINED

\* C6: a failed summarize (ask) request ends with the fixed failure message
\* as explanation (answer), the loading flag false and no exception escaped.
C6_FailureCaught ==
  [][/\ lastHandler' = "handleExplain:failed" =>
          explanation' = ExplainFailedMessage /\ ~explanationLoading' /\ ~uncaught'
     /\ lastHandler' = "handleQuerySubmit:failed" =>
          queryAnswer' = AskFailedMessage /\ ~queryLoading' /\ ~uncaught']_vars

\* C6 witness: a summarize request has just failed while it was loading.
C6_Witness ==
  /\ lastHandler = "handleExplain:failed"
  /\ explanation = ExplainFailedMessage
  /\ ~explanationLoading

\* C7: every summarize request carries one of the three knowledge levels,
\* Intermediate when none is stored.
C7_KnowledgeLevel ==
  /\ lsKnowledgeLevel \in Levels \cup {NullStr}
  /\ \A k \in DOMAIN summarizeReqs :
       /\ summarizeReqs[k].knowledge_level \in Levels
       /\ lsKnowledgeLevel = NullStr => summarizeReqs[k].knowledge_level = "Intermediate"

\* C7 witness: a summarize request carries the level Expert chosen in the
\* onboarding wizard.
C7_Witness ==
  /\ lsKnowledgeLevel = "Expert"
  /\ \E k \in DOMAIN summarizeReqs : summarizeReqs[k].knowledge_level = "Expert"

\* C8 as claimed: once every feedback request has completed successfully,
\* each article with an identifier shows the type of the feedback issued last
\* for it.
C8_LastWriteWins ==
  (feedbackReqs = <<>> /\ ~feedbackFailed) =>
    \A k \in DOMAIN articles :
      (Truthy(articles[k].id) /\ lastFeedback[articles[k].id] # UNDEFINED) =>
        articles[k].feedback = lastFeedback[articles[k].id]

\* C9 as claimed: every Explain and every Ask that is loading eventually
\* ends, whatever the generation backend does.
C9_RequestsEnd ==
  /\ explanationLoading ~> ~explanationLoading
  /\ queryLoading ~> ~queryLoading

\* C10 as claimed: a failed personalized feed request ends with the error
\* message and without a substitute list.
C10_FeedFailureReported ==
  (fetchFeed.pc = "done" /\ fetchFeed.err = "feed") =>
    (error # "" /\ articles = <<>>)

\* C10 amended: after a failed personalized feed request the general list is
\* requested; its list is shown without error when it succeeds, the error
\* is reported and no list shown only when it fails as well.
C10_FallbackThenReport ==
  (fetchFeed.pc = "done" /\ fetchFeed.err = "feed") =>
    /\ ~loading
    /\ IF fetchFeed.fallbackErr
       THEN error = FeedErrorMessage /\ articles = <<>>
       ELSE LET last == fetchFeed.responses[Len(fetchFeed.responses)] IN
            /\ error = ""
            /\ last.request = "fallback" /\ last.ok
            /\ articles = last.data

\* C10 witness: the general list is shown, without error, after the
\* personalized feed request failed.
C10_Witness ==
  /\ fetchFeed.pc = "done" /\ fetchFeed.err = "feed" /\ ~fetchFeed.fallbackErr
  /\ articles # <<>>
  /\ error = ""

\* The onboarding wizard with all its interests, for a user who registers.
NextWizard ==
  \/ \E u \in Users \ ExistingAccounts : authReqs = <<>> /\ RegisterSubmit(u)
  \/ \E k \in 1..MaxAuth, ok \in BOOLEAN, detail \in RegisterDetails :
       RegisterResponse(k, ok, detail)
  \/ \E p \in WizardPaths : Navigate(p)
  \/ \E ok \in BOOLEAN : InterestsResponse(ok)
  \/ \E i \in InterestIds : ToggleInterest(i)
  \/ HandleNext
  \/ HandleBack
  \/ \E k \in Levels : SetKnowledgeLevel(k)
  \/ HandleSubmit
  \/ \E k \in 1..MaxPrefs, ok \in BOOLEAN : PrefsResponse(k, ok)
  \/ DocumentLoad

WizardSpec == Init /\ [][NextWizard]_vars

\* Registration, login, logout, page loads and onboarding; the feed is
\* reached but its requests are not answered.
NextOnboarding ==
  \/ \E u \in Users : authReqs = <<>> /\ LoginSubmit(u)
  \/ \E k \in 1..MaxAuth, ok \in BOOLEAN, detail \in LoginDetails :
       LoginResponse(k, ok, detail)
  \/ \E u \in Users : authReqs = <<>> /\ RegisterSubmit(u)
  \/ \E k \in 1..MaxAuth, ok \in BOOLEAN, detail \in RegisterDetails :
       RegisterResponse(k, ok, detail)
  \/ Logout
  \/ \E p \in OnboardingPaths : Navigate(p)
  \/ \E p \in OnboardingPaths : PageLoad(p)
  \/ \E ok \in BOOLEAN : InterestsResponse(ok)
  \/ \E i \in LevelInterests : ToggleInterest(i)
  \/ HandleNext
  \/ HandleBack
  \/ \E k \in Levels : SetKnowledgeLevel(k)
  \/ HandleSubmit
  \/ \E k \in 1..MaxPrefs, ok \in BOOLEAN : PrefsResponse(k, ok)
  \/ DocumentLoad

OnboardingSpec == Init /\ [][NextOnboarding]_vars

\* C11: the wizard is past step 1 only with at least one interest selected,
\* and every preferences PUT that was sent carries at least one interest.
C11_InterestsBeforeSubmit ==
  /\ step >= 2 => interests # <<>>
  /\ \A k \in DOMAIN prefsReqs : prefsReqs[k].interests # <<>>

\* The PUT was sent from step 3, with the interests selected on step 1.
C11_Witness ==
  /\ page = "/onboarding"
  /\ step = 3
  /\ prefsReqs # <<>>
  /\ prefsReqs[1].interests = interests
  /\ interests # <<>>

\* ------------------------------------------------------------ feed ranker
\* rank(userPreferences, candidateArticles), after section 4.1 of the
\* specification.  The interest-overlap score is the size of the
\* intersection; the trending bonus and the dislike penalty are positive
\* amounts the specification leaves to the implementer.
MaxWeight == 2

RankIdOrder == <<"r1", "r2", "r3">>
RankIds == {RankIdOrder[k] : k \in DOMAIN RankIdOrder}
IdPosition(id) == CHOOSE k \in DOMAIN RankIdOrder : RankIdOrder[k] = id

RankCategories == {{}, {"i1"}, {"i1", "i2"}}
Timestamps == {1, 2}
ArticleFields ==
  [categories : RankCategories, trending : BOOLEAN, published : Timestamps]
NotCandidate == [candidate |-> FALSE]

\* The candidate collections: every identifier at most once.
Candidates(fields) ==
  {[id |-> i, categories |-> fields[i].categories, trending |-> fields[i].trending,
    published |-> fields[i].published] : i \in {j \in RankIds : fields[j] # NotCandidate}}

Feedbacks == [RankIds -> {UNDEFINED, "dislike"}]

Overlap(a, prefs) == Cardinality(a.categories \cap prefs.interests)
Disliked(a, prefs) == prefs.feedback[a.id] = "dislike"

\* Steps 1 to 3: overlap, trending bonus, dislike penalty.
Score_NoFeedback(a, prefs, trendingBonus, dislikePenalty) ==
  Overlap(a, prefs) + (IF a.trending THEN trendingBonus ELSE 0)

Score_NoTrending(a, prefs, trendingBonus, dislikePenalty) ==
  Overlap(a, prefs) - (IF Disliked(a, prefs) THEN dislikePenalty ELSE 0)

Score(a, prefs, trendingBonus, dislikePenalty) ==
  Overlap(a, prefs) + (IF a.trending THEN trendingBonus ELSE 0)
    - (IF Disliked(a, prefs) THEN dislikePenalty ELSE 0)

\* Step 4: higher score first, then newest first, then identifier order.
Before(a, b, prefs, trendingBonus, dislikePenalty) ==
  LET sa == Score(a, prefs, trendingBonus, dislikePenalty)
      sb == Score(b, prefs, trendingBonus, dislikePenalty)
  IN \/ sa > sb
     \/ sa = sb /\ a.published > b.published
     \/ sa = sb /\ a.published = b.published /\ IdPosition(a.id) < IdPosition(b.id)

RECURSIVE Ordered(_, _, _, _)
Ordered(prefs, articleSet, trendingBonus, dislikePenalty) ==
  IF articleSet = {} THEN <<>>
  ELSE LET first == CHOOSE a \in articleSet :
                      \A b \in articleSet \ {a} :
                        Before(a, b, prefs, trendingBonus, dislikePenalty)
       IN <<first>> \o Ordered(prefs, articleSet \ {first}, trendingBonus,
                               dislikePenalty)

\* The weights are constants of the ranker, fixed by the implementer and not
\* given by the specification: a trending bonus and a dislike penalty, the
\* bonus the larger of the two, as the ordering of trending articles for a
\* user without interests (section 8) requires of every choice.
Weights ==
  {w \in [trendingBonus : 1..MaxWeight, dislikePenalty : 1..MaxWeight] :
     w.dislikePenalty < w.trendingBonus}

\* Step 5: the full ordered sequence, with the weights of this ranker.
rank_MatchingOnly(prefs, candidateArticles) ==
  Ordered(prefs, {a \in candidateArticles : Overlap(a, prefs) > 0},
          rankCall.trendingBonus, rankCall.dislikePenalty)

rank(prefs, candidateArticles) ==
  Ordered(prefs, candidateArticles, rankCall.trendingBonus, rankCall.dislikePenalty)

\* A ranker with its weights, and a call of rank: any preference snapshot,
\* any candidate collection.
RankInit ==
  /\ InitApp
  /\ \E ints \in SUBSET InterestIds, fb \in Feedbacks,
        fields \in [RankIds -> ArticleFields \cup {NotCandidate}], w \in Weights :
       rankCall = [userPreferences |-> [interests |-> ints, feedback |-> fb],
                   candidateArticles |-> Candidates(fields),
                   trendingBonus |-> w.trendingBonus,
                   dislikePenalty |-> w.dislikePenalty, called |-> FALSE,
                   orderedSequence |-> <<>>]
  /\ routeRender = NoRouteRender

Rank ==
  /\ ~rankCall.called
  /\ rankCall' = [rankCall EXCEPT
       !.called = TRUE,
       !.orderedSequence = rank(rankCall.userPreferences, rankCall.candidateArticles)]
  /\ UNCHANGED <<authVars, page, formError, onbVars, prefsReqs, feedVars, uncaught,
                 lastHandler, pendingNav, routeRender, netVars>>

NextRank == Rank

RankSpec == RankInit /\ [][NextRank]_vars

Range(s) == {s[k] : k \in DOMAIN s}

\* C12: the output of rank holds every candidate exactly once and nothing
\* else, whatever the overlap and the feedback; no candidates give the
\* empty sequence.
C12_RankPermutation ==
  rankCall.called =>
    /\ Len(rankCall.orderedSequence) = Cardinality(rankCall.candidateArticles)
    /\ Range(rankCall.orderedSequence) = rankCall.candidateArticles
    /\ rankCall.candidateArticles = {} => rankCall.orderedSequence = <<>>

\* Three candidates, one without overlap and one disliked, all in the output.
C12_Witness ==
  /\ rankCall.called
  /\ Len(rankCall.orderedSequence) = 3
  /\ \E a \in rankCall.candidateArticles : Overlap(a, rankCall.userPreferences) = 0
  /\ \E a \in rankCall.candidateArticles : Disliked(a, rankCall.userPreferences)
  /\ rankCall.userPreferences.interests # {}

\* C13: a disliked article is never placed above an article that is not
\* disliked and has the same interest overlap and the same trending flag.
C13_DislikedNotAbove ==
  rankCall.called =>
    LET s == rankCall.orderedSequence
        prefs == rankCall.userPreferences
    IN \A i, j \in DOMAIN s :
         (/\ i < j
          /\ Overlap(s[i], prefs) = Overlap(s[j], prefs)
          /\ s[i].trending = s[j].trending
          /\ ~Disliked(s[j], prefs))
         => ~Disliked(s[i], prefs)

\* A disliked article below a newer-or-equal, otherwise equal one although
\* its identifier and timestamp would put it first.
C13_Witness ==
  /\ rankCall.called
  /\ LET s == rankCall.orderedSequence
         prefs == rankCall.userPreferences
     IN \E i, j \in DOMAIN s :
          /\ i < j
          /\ Overlap(s[i], prefs) = Overlap(s[j], prefs)
          /\ s[i].trending = s[j].trending
          /\ ~Disliked(s[i], prefs)
          /\ Disliked(s[j], prefs)
          /\ s[j].published > s[i].published

\* C14: for a user without interests every trending article is at or above
\* every non-trending article of the same timestamp, disliked or not.
C14_TrendingFirst ==
  (rankCall.called /\ rankCall.userPreferences.interests = {}) =>
    LET s == rankCall.orderedSequence IN
    \A i, j \in DOMAIN s :
      (i < j /\ s[i].published = s[j].published /\ s[j].trending) => s[i].trending

\* No interests: a disliked trending article first although the dislike
\* and the identifier order would put a non-trending one of the same
\* timestamp, not disliked, before it.
C14_Witness ==
  /\ rankCall.called
  /\ rankCall.userPreferences.interests = {}
  /\ LET s == rankCall.orderedSequence
         prefs == rankCall.userPreferences
     IN \E i, j \in DOMAIN s :
          /\ i < j
          /\ s[i].trending /\ ~s[j].trending
          /\ s[i].published = s[j].published
          /\ Disliked(s[i], prefs) /\ ~Disliked(s[j], prefs)
          /\ IdPosition(s[j].id) < IdPosition(s[i].id)

\* C15: the selected interests never hold an identifier twice, and toggling
\* any identifier twice in a row gives back the same set of interests.
C15_InterestsFormSet ==
  /\ \A j, k \in DOMAIN interests : interests[j] = interests[k] => j = k
  /\ \A i \in InterestIds :
       Range(toggleInterest(toggleInterest(interests, i), i)) = Range(interests)

\* Two interests selected, in an order that selecting, deselecting and
\* selecting again produces.
C15_Witness ==
  /\ page = "/onboarding"
  /\ interests = <<"i2", "i1">>
  /\ toggleInterest(toggleInterest(interests, "i2"), "i2") = <<"i1", "i2">>

\* ------------------------------------------------- ProtectedRoute, rendered
\* The auth context a render of ProtectedRoute can see: loading with no user
\* before AuthProvider's effect has run, afterwards no user, a user stored by
\* login, one stored by register, or one stored after onboarding.
UserObjects ==
  {[id |-> u] : u \in Users}
  \cup {[id |-> u, isNewUser |-> b] : u \in Users, b \in BOOLEAN}
AuthContexts ==
  {[user |-> NullObj, loading |-> TRUE]}
  \cup {[user |-> u, loading |-> FALSE] : u \in UserObjects \cup {NullObj}}

RouteInit ==
  /\ InitApp
  /\ rankCall = NoRankCall
  /\ \E r \in ProtectedRoutes, auth \in AuthContexts :
       routeRender = [path |-> r.path, pathname |-> r.pathname,
                      requireOnboarding |-> r.requireOnboarding,
                      user |-> auth.user, loading |-> auth.loading,
                      rendered |-> FALSE, element |-> "none"]

RenderProtectedRoute ==
  /\ ~routeRender.rendered
  /\ routeRender' = [routeRender EXCEPT
       !.rendered = TRUE,
       !.element = ProtectedRouteElement(routeRender.requireOnboarding,
                     routeRender.pathname, routeRender.user, routeRender.loading)]
  /\ UNCHANGED <<authVars, page, formError, onbVars, prefsReqs, feedVars, uncaught,
                 lastHandler, pendingNav, rankCall, netVars>>

NextRoute == RenderProtectedRoute

RouteSpec == RouteInit /\ [][NextRoute]_vars

\* C16: ProtectedRoute returns its children only when loading is over and
\* a user is set; while loading it returns the loading placeholder, and
\* with loading over and no user it returns the redirect to /login.
C16_ProtectedContent ==
  routeRender.rendered =>
    /\ routeRender.element = "children" =>
         ~routeRender.loading /\ routeRender.user # NullObj
    /\ routeRender.loading => routeRender.element = "Loading..."
    /\ (~routeRender.loading /\ routeRender.user = NullObj) =>
         routeRender.element = "Navigate:/login"

\* The feed route rendered while the auth context is loading.
C16_Witness ==
  /\ routeRender.rendered
  /\ routeRender.path = "/feed"
  /\ routeRender.loading
  /\ routeRender.element = "Loading..."

\* C17: for a user flagged isNewUser every route with requireOnboarding
\* renders the redirect to /onboarding, and the /onboarding route renders
\* its children.
C17_NewUserToOnboarding ==
  (routeRender.rendered /\ ~routeRender.loading /\ IsNewUser(routeRender.user)) =>
    /\ routeRender.requireOnboarding => routeRender.element = "Navigate:/onboarding"
    /\ routeRender.path = "/onboarding" => routeRender.element = "children"

\* A new user asks for an article page and is redirected.
C17_Witness ==
  /\ routeRender.rendered
  /\ IsNewUser(routeRender.user)
  /\ routeRender.path = "/articles/:articleId"
  /\ routeRender.element = "Navigate:/onboarding"

\* ------------------------------------------- registration, step by step
\* The continuation of register up to its return: on success the account
\* exists, the token and the user are stored and setUser has been called;
\* a protected page on screen is routed again for the new user, and the
\* navigate of handleSubmit and, when LoginPage or RegisterPage is on screen,
\* the navigate of that page's effect on user are both still to run.
RegisterReturned(k, ok, detail) ==
  /\ k \in DOMAIN authReqs
  /\ authReqs[k].request = "register"
  /\ pendingNav = {}
  /\ LET r == authReqs[k]
         rest == RemoveAt(authReqs, k) IN
     IF ok /\ r.email \notin accounts
     THEN /\ accounts' = accounts \cup {r.email}
          /\ lsToken' = TokenOf(r.email)
          /\ lsUser' = [id |-> r.email, isNewUser |-> TRUE]
          /\ user' = [id |-> r.email, isNewUser |-> TRUE]
          /\ pendingNav' = {"handleSubmit"} \cup
               (IF page \in {"/login", "/register"} THEN {"effect"} ELSE {})
          /\ IF page \in {"/login", "/register"}
             THEN Stay(rest, prefsReqs)
             ELSE Show(page, user', FALSE, rest, prefsReqs)
     ELSE /\ UNCHANGED <<accounts, lsToken, lsUser, user, pendingNav, page, onbVars,
                         feedVars, prefsReqs>>
          /\ formError' = (IF r.mounted THEN FailureMessage(detail, RegisterFailedMessage)
                           ELSE formError)
          /\ authReqs' = rest
  /\ lastHandler' = "none"
  /\ UNCHANGED <<lsKnowledgeLevel, onboarded, pendingLoad, uncaught, rankCall, routeRender>>

\* The effect of LoginPage and RegisterPage: navigate('/feed') once user is set.
RegisterEffect ==
  /\ "effect" \in pendingNav
  /\ user # NullObj
  /\ page \in {"/login", "/register"}
  /\ pendingNav' = pendingNav \ {"effect"}
  /\ Show("/feed", user, FALSE, authReqs, prefsReqs)
  /\ lastHandler' = "none"
  /\ UNCHANGED <<authVars, pendingLoad, uncaught, rankCall, routeRender>>

\* The page is unmounted before its effect has run: the effect is dropped.
RegisterUnmounted ==
  /\ "effect" \in pendingNav
  /\ page \notin {"/login", "/register"}
  /\ pendingNav' = pendingNav \ {"effect"}
  /\ lastHandler' = "none"
  /\ UNCHANGED <<authVars, page, formError, onbVars, prefsReqs, feedVars, uncaught,
                 rankCall, routeRender, netVars>>

\* The continuation of handleSubmit: navigate('/onboarding').
RegisterNavigate ==
  /\ "handleSubmit" \in pendingNav
  /\ pendingNav' = pendingNav \ {"handleSubmit"}
  /\ Show("/onboarding", user, FALSE, authReqs, prefsReqs)
  /\ lastHandler' = "none"
  /\ UNCHANGED <<authVars, pendingLoad, uncaught, rankCall, routeRender>>

\* No continuation or effect is waiting: the next thing to run is an event.
Idle == pendingNav = {}

NextRegister ==
  \/ Idle /\ \E u \in Users : RegisterSubmit(u)
  \/ \E k \in 1..MaxAuth, ok \in BOOLEAN, detail \in RegisterDetails :
       RegisterReturned(k, ok, detail)
  \/ RegisterEffect
  \/ RegisterUnmounted
  \/ RegisterNavigate
  \/ Idle /\ \E u \in Users : LoginSubmit(u)
  \/ Idle /\ \E k \in 1..MaxAuth, ok \in BOOLEAN, detail \in LoginDetails :
               LoginResponse(k, ok, detail)
  \/ Idle /\ Logout
  \/ Idle /\ \E p \in Pages : Navigate(p)
  \/ Idle /\ \E ok \in BOOLEAN : InterestsResponse(ok)
  \/ Idle /\ \E i \in InterestIds : ToggleInterest(i)
  \/ Idle /\ HandleNext
  \/ Idle /\ HandleBack
  \/ Idle /\ \E k \in Levels : SetKnowledgeLevel(k)

RegisterSpec == Init /\ [][NextRegister]_vars

\* React runs a pending effect of a mounted component or drops it with the
\* component, and the event loop runs the continuation of handleSubmit.
RegisterFairness ==
  /\ WF_vars(RegisterEffect \/ RegisterUnmounted)
  /\ WF_vars(RegisterNavigate)

FairRegisterSpec == RegisterSpec /\ RegisterFairness

\* C18: from a successful registration on, the feed is not rendered while a
\* navigation of RegisterPage is still to run, in whichever order they run,
\* and the user comes to be on /onboarding with none left.
C18_LandsOnOnboarding ==
  /\ [](pendingNav # {} => (page # "/feed" /\ fetchFeed.pc = "idle"))
  /\ (pendingNav # {}) ~> (pendingNav = {} /\ page = "/onboarding")

\* The effect's navigate('/feed') ran first and ended on /onboarding; the
\* navigate of handleSubmit is still to run.
C18_Witness ==
  /\ pendingNav = {"handleSubmit"}
  /\ page = "/onboarding"
  /\ IsNewUser(user)

\* C19: the feed page is rendered only for a user whose preferences PUT has
\* succeeded, whatever registrations, logins, logouts, page loads and
\* onboarding steps came before.
C19_FeedOnlyAfterOnboarding ==
  page = "/feed" => (user # NullObj /\ user.id \in onboarded)

\* C20: when the preferences PUT fails, the stored user and the stored
\* knowledge level are left as they were, the page stays, and the error
\* message is set on the wizard that sent it; when it succeeds, the stored
\* user has isNewUser = false and the stored level is the one that was sent.
C20_CompletionOnlyOnSuccess ==
  [][/\ lastHandler' = "handleSubmit:failed" =>
          /\ lsUser' = lsUser
          /\ lsKnowledgeLevel' = lsKnowledgeLevel
          /\ user' = user
          /\ page' = page
          /\ \E k \in DOMAIN prefsReqs :
               /\ prefsReqs' = RemoveAt(prefsReqs, k)
               /\ prefsReqs[k].mounted => onbError' = PrefsErrorMessage
     /\ lastHandler' = "handleSubmit:ok" =>
          /\ "isNewUser" \in DOMAIN lsUser'
          /\ lsUser'.isNewUser = FALSE
          /\ \E k \in DOMAIN prefsReqs :
               /\ lsUser'.id = prefsReqs[k].user.id
               /\ lsKnowledgeLevel' = prefsReqs[k].knowledge_level]_vars

\* The PUT of a new user has failed: the error is shown on the wizard, the
\* stored user is still new and no level is stored.
C20_Witness ==
  /\ lastHandler = "handleSubmit:failed"
  /\ page = "/onboarding"
  /\ onbError = PrefsErrorMessage
  /\ IsNewUser(lsUser)
  /\ lsKnowledgeLevel = NullStr

\* ------------------------------------------------------- the feed, fetched
\* The feed page and its fetchFeed effect, for the users who log in.
NextFeed ==
  \/ \E u \in Users : LoginSubmit(u)
  \/ \E k \in 1..MaxAuth, ok \in BOOLEAN, detail \in LoginDetails :
       LoginResponse(k, ok, detail)
  \/ \E u \in Users : RegisterSubmit(u)
  \/ \E k \in 1..MaxAuth, ok \in BOOLEAN, detail \in RegisterDetails :
       RegisterResponse(k, ok, detail)
  \/ Logout
  \/ \E p \in Pages : Navigate(p)
  \/ \E ok \in BOOLEAN, data \in ArticleLists : FeedResponse(ok, data)
  \/ \E ok \in BOOLEAN, data \in ArticleLists : GeneralResponse(ok, data)
  \/ \E ok \in BOOLEAN, data \in ArticleLists : FallbackResponse(ok, data)
  \/ FeedSilent
  \/ \E i \in 1..2 : HandleArticleClick(i)
  \/ \E q \in Queries : SetQuery(q)

FeedSpec == Init /\ [][NextFeed]_vars

\* The event loop runs the continuation of a GET once the backend has
\* answered it; a GET the backend leaves unanswered (FeedSilent) has no
\* continuation to run.
FeedFairness ==
  /\ WF_vars(\E ok \in BOOLEAN, data \in ArticleLists : FeedResponse(ok, data))
  /\ WF_vars(\E ok \in BOOLEAN, data \in ArticleLists : GeneralResponse(ok, data))
  /\ WF_vars(\E ok \in BOOLEAN, data \in ArticleLists : FallbackResponse(ok, data))

FairFeedSpec == FeedSpec /\ FeedFairness

\* The first answer is the one of the personalized feed; it is used when it
\* succeeded with a non-empty list.
FeedUsed ==
  /\ fetchFeed.responses # <<>>
  /\ fetchFeed.responses[1].ok
  /\ fetchFeed.responses[1].data # <<>>

\* C21: when the personalized feed answered with a non-empty list, no other
\* request is made and the articles shown are that list, element by
\* element; the general list is requested, and shown when it arrives, only
\* after a personalized feed that failed or was empty.
C21_FeedSourceSelection ==
  /\ fetchFeed.responses # <<>> => fetchFeed.responses[1].request = "feed"
  /\ FeedUsed =>
       /\ fetchFeed.pc = "done"
       /\ Len(fetchFeed.responses) = 1
       /\ articles = fetchFeed.responses[1].data
  /\ (fetchFeed.pc \in {"general", "fallback"} \/ Len(fetchFeed.responses) > 1) =>
       ~FeedUsed
  /\ (fetchFeed.pc = "done" /\ ~FeedUsed) =>
       LET last == fetchFeed.responses[Len(fetchFeed.responses)] IN
       /\ last.request \in {"general", "fallback"}
       /\ last.ok => articles = last.data

\* The personalized feed answered with two articles, which are shown.
C21_Witness ==
  /\ fetchFeed.pc = "done"
  /\ FeedUsed
  /\ Len(articles) = 2
  /\ articles = fetchFeed.responses[1].data

\* Answer k delivered a list to show: any successful answer but an empty
\* personalized feed.
DeliveredList(k) ==
  /\ fetchFeed.responses[k].ok
  /\ fetchFeed.responses[k].request = "feed" => fetchFeed.responses[k].data # <<>>

\* A step that mounts FeedPage: fetchFeed starts anew, and what the fetchFeed
\* of the page that was on screen still awaits no longer reaches any state.
FeedMounted == fetchFeed'.pc = "feed" /\ fetchFeed'.responses = <<>>

\* The requests of fetchFeed in the order it makes them, and its end.
FeedStage(pc) ==
  CASE pc = "idle" -> 0 [] pc = "feed" -> 1 [] pc = "general" -> 2
    [] pc = "fallback" -> 3 [] pc = "done" -> 4

\* C22 as claimed: fetchFeed only moves on from request to request towards
\* its end unless its page is unmounted, it leaves every request it awaits,
\* whatever the backend does, and it ends with loading = false; the feed
\* error message is set exactly when no answer
\* delivered a list, the last request to GET /articles having failed too,
\* and otherwise error is empty and the delivered list is shown.
C22_FetchFeedEnds ==
  /\ [](fetchFeed.pc = "done" =>
          LET n == Len(fetchFeed.responses) IN
          /\ ~loading
          /\ error # "" <=> (\A k \in 1..n : ~DeliveredList(k))
          /\ error # "" =>
               /\ error = FeedErrorMessage
               /\ fetchFeed.responses[n].request = "fallback"
               /\ ~fetchFeed.responses[n].ok
          /\ error = "" => (DeliveredList(n) /\ articles = fetchFeed.responses[n].data))
  /\ [][fetchFeed'.pc # fetchFeed.pc =>
          (FeedStage(fetchFeed'.pc) > FeedStage(fetchFeed.pc) \/ FeedMounted
           \/ fetchFeed'.pc = "idle")]_vars
  /\ (fetchFeed.pc = "feed") ~> (fetchFeed.pc # "feed")
  /\ (fetchFeed.pc = "general") ~> (fetchFeed.pc # "general")
  /\ (fetchFeed.pc = "fallback") ~> (fetchFeed.pc # "fallback")

\* C22, the part that holds: once fetchFeed has ended, loading is false and
\* the error message is set exactly when no answer delivered a list.
FetchFeedEnded ==
  fetchFeed.pc = "done" =>
    LET n == Len(fetchFeed.responses) IN
    /\ ~loading
    /\ error # "" <=> (\A k \in 1..n : ~DeliveredList(k))
    /\ error = "" => (DeliveredList(n) /\ articles = fetchFeed.responses[n].data)

\* C23: the wizard step is always 1, 2 or 3; handleNext adds one below 3 and
\* leaves 3 as it is, handleBack subtracts one above 1 and leaves 1 as it
\* is, and neither changes the interests or the knowledge level.
C23_StepInRange ==
  [][/\ step \in 1..3 /\ step' \in 1..3
     /\ lastHandler' = "handleNext" =>
          /\ step' = (IF step = 3 THEN 3 ELSE step + 1)
          /\ interests' = interests
          /\ knowledgeLevel' = knowledgeLevel
     /\ lastHandler' = "handleBack" =>
          /\ step' = (IF step = 1 THEN 1 ELSE step - 1)
          /\ interests' = interests
          /\ knowledgeLevel' = knowledgeLevel]_vars

\* handleBack has run on step 1 of a wizard with an interest and a level
\* chosen, and the step is still 1.
C23_Witness ==
  /\ lastHandler = "handleBack"
  /\ step = 1
  /\ interests # <<>>
  /\ knowledgeLevel # DefaultLevel

\* C24: a user in the auth context comes with a token and a user record
\* in localStorage; right after logout the user is null, both
\* entries are gone and a request gets no Authorization header.
C24_AuthMatchesStorage ==
  /\ user # NullObj => (Truthy(lsToken) /\ lsUser # NullObj)
  /\ lastHandler = "logout" =>
       /\ user = NullObj
       /\ lsToken = NullStr
       /\ lsUser = NullObj
       /\ "Authorization" \notin DOMAIN RequestHeaders

\* Logged out after a completed onboarding: the stored level is all that
\* is left in localStorage.
C24_Witness ==
  /\ lastHandler = "logout"
  /\ user = NullObj
  /\ lsToken = NullStr
  /\ lsKnowledgeLevel # NullStr
  /\ "u2" \in onboarded

\* The article a summarize request was issued for: the text it carries is
\* the text Explain takes from that article.
ExplainIssuedFor(req, a) ==
  a # NullObj /\ req.content = ContentToExplain(a)

\* The article an ask request was issued for: its article_id and context
\* are those of the payload built from that article.
AskIssuedFor(req, a) ==
  /\ a # NullObj
  /\ req.article_id = AskPayload(req.query, a).article_id
  /\ req.context = AskPayload(req.query, a).context

\* C25: whenever a generated explanation or answer is put on screen, the
\* request that produced it was issued for the article that is active then,
\* also when another article was selected while the request was in flight.
C25_TextOfActiveArticle ==
  [][/\ (lastHandler' = "handleExplain:ok" /\ summarizeReqs # <<>>)
          => ExplainIssuedFor(summarizeReqs[1], activeArticle')
     /\ (lastHandler' = "handleQuerySubmit:ok" /\ askReqs # <<>>)
          => \E k \in DOMAIN askReqs :
               /\ askReqs' = RemoveAt(askReqs, k)
               /\ AskIssuedFor(askReqs[k], activeArticle')]_vars
====

